---- MODULE Spec2Model ----
(***************************************************************************)
(* Model of the two Gradle build-support scripts of App/Code/AppAndroid/   *)
(* GradleBuild:                                                            *)
(*   create_local_maven_repo.py      (the Cache Mirror)                    *)
(*   refresh_google_services_json.py (the Service-Config Generator)        *)
(*                                                                         *)
(* A string is a sequence of tokens.  A token is one character, or one of  *)
(* the literals the scripts match on ("modules-", "files-", ...), kept     *)
(* whole.  A path on the filesystem is a sequence of names (each a         *)
(* string); the filesystem is a function from paths to entries.            *)
(***************************************************************************)
EXTENDS Integers, Sequences, FiniteSets, TLC

VARIABLES
    fs,                 \* the filesystem: path -> [kind, data, born]
    pc,                 \* position of main() of the mirror
    run,                \* number of the current invocation of the mirror
    cache_dirs,         \* glob results not yet iterated (line 35)
    cache_dir,          \* loop variable of line 35
    group_ids,          \* os.listdir results not yet iterated (line 36)
    cache_group_id,     \* loop variable of line 36
    artifact_ids,       \* os.listdir results not yet iterated (line 39)
    cache_artifact_id,  \* loop variable of line 39
    version_ids,        \* os.listdir results not yet iterated (line 42)
    cache_version_id,   \* loop variable of line 42
    cache_items,        \* glob results not yet iterated (line 48)
    stdout,             \* the progress lines printed by line 51
    copied,             \* history: the copyfile calls that returned, in order
    prev,               \* history: the destination tree the last completed run left
    before,             \* history: the destination tree when the current run started
    \* refresh_google_services_json.py
    gpc,                \* position of main() of the generator
    descriptor,         \* the parsed google-services.json
    out,                \* res/values/google_services.xml and its directory
    out0,               \* history: out when main() started
    client,             \* main's client (line 94)
    project,            \* main's project (line 94)
    oauth_client,       \* build_values_xml's oauth_client (line 71)
    api_key,            \* build_values_xml's api_key (line 72)
    xml,                \* build_values_xml's xml (line 74)
    gerr,               \* the exception that ended main(), "" when none
    \* one call of a lookup function
    call,               \* the function called
    args,               \* its arguments
    result              \* what it returned or raised; pending before the call

mirrorVars == <<fs, pc, run, cache_dirs, cache_dir, group_ids, cache_group_id,
                artifact_ids, cache_artifact_id, version_ids, cache_version_id,
                cache_items, stdout, copied, prev, before>>

genVars == <<gpc, descriptor, out, out0, client, project, oauth_client, api_key,
             xml, gerr>>

lookupVars == <<call, args, result>>

vars == <<mirrorVars, genVars, lookupVars>>

----------------------------------------------------------------------------
(* Bounds of the model *)

\* at most this many files are put in the Gradle cache by Init
MaxSourceFiles == 2
\* the mirror is invoked at most this many times in a row
MaxRuns == 2

----------------------------------------------------------------------------
(* Strings and paths *)

\* the POSIX branch of the platform switch (lines 22-24): prefix is empty,
\* sep is "/"
sep == "/"
prefix == <<>>

\* str.replace(old, new) for one-character old and new
\* (replace_nothing: the faulty variant that leaves the string as it is)
replace_nothing(s, old, new) == s
replace(s, old, new) == [i \in DOMAIN s |-> IF s[i] = old THEN new ELSE s[i]]

\* os.path.join(a, b): an absolute b discards a
join(a, b) ==
    IF b /= <<>> /\ Head(b) = sep THEN b
    ELSE IF a = <<>> \/ a[Len(a)] = sep THEN a \o b
    ELSE a \o <<sep>> \o b

\* os.path.basename(p): what follows the last separator
RECURSIVE basename(_)
basename(p) ==
    IF p = <<>> \/ p[Len(p)] = sep THEN <<>>
    ELSE Append(basename(SubSeq(p, 1, Len(p) - 1)), p[Len(p)])

\* How the operating system resolves a path string: the names between
\* separators, empty names dropped ("a//b" is "a/b").
RECURSIVE SplitPath(_, _, _)
SplitPath(p, cur, acc) ==
    IF p = <<>> THEN (IF cur = <<>> THEN acc ELSE Append(acc, cur))
    ELSE IF Head(p) = sep
         THEN SplitPath(Tail(p), <<>>, IF cur = <<>> THEN acc ELSE Append(acc, cur))
         ELSE SplitPath(Tail(p), Append(cur, Head(p)), acc)

Resolve(p) == SplitPath(prefix \o p, <<>>, <<>>)

\* The absolute path string of a resolved path
RECURSIVE PathString(_)
PathString(path) ==
    IF path = <<>> THEN <<>>
    ELSE <<sep>> \o Head(path) \o PathString(Tail(path))

IsUnder(q, r) == Len(q) >= Len(r) /\ SubSeq(q, 1, Len(r)) = r

----------------------------------------------------------------------------
(* Filesystem calls.  f is a filesystem, p a path string. *)

Dir(b) == [kind |-> "dir", data |-> 0, born |-> b]
File(d, b) == [kind |-> "file", data |-> d, born |-> b]

\* os.path.isdir
isdir(f, p) == Resolve(p) \in DOMAIN f /\ f[Resolve(p)].kind = "dir"

\* the names in directory r (a resolved path); none when r is no directory
children(f, r) ==
    IF r \in DOMAIN f /\ f[r].kind = "dir"
    THEN {q[Len(q)] : q \in {x \in DOMAIN f : Len(x) = Len(r) + 1 /\ IsUnder(x, r)}}
    ELSE {}

\* os.listdir, for a p that is a directory
listdir(f, p) == children(f, Resolve(p))

\* shutil.rmtree: p and everything below it is gone
\* (faulty variants: one removes nothing, one removes the files only)
rmtree_keeps_all(f, p) == f
rmtree_keeps_directories(f, p) ==
    [q \in {x \in DOMAIN f : ~IsUnder(x, Resolve(p)) \/ f[x].kind = "dir"} |-> f[q]]
rmtree(f, p) == [q \in {x \in DOMAIN f : ~IsUnder(x, Resolve(p))} |-> f[q]]

\* os.makedirs(p): creates p and its missing parents; fails when p exists or
\* a parent is a file.  b is the run that creates the directories.
makedirs(f, p, b) ==
    LET r == Resolve(p)
        chain == {SubSeq(r, 1, k) : k \in 0..Len(r)}
        blocked == \E q \in chain : q \in DOMAIN f /\ (f[q].kind = "file" \/ q = r)
    IN  IF blocked THEN [ok |-> FALSE, fs |-> f]
        ELSE [ok |-> TRUE,
              fs |-> [q \in DOMAIN f \cup chain |->
                         IF q \in DOMAIN f THEN f[q] ELSE Dir(b)]]

\* Whether shutil.copyfile(src, dst) can open both files: src is a file, dst
\* is no directory and lies in a directory, and they are not the same file.
CanCopy(f, src, dst) ==
    LET s == Resolve(src)
        d == Resolve(dst)
    IN  /\ s \in DOMAIN f /\ f[s].kind = "file"
        /\ d /= s /\ d /= <<>>
        /\ ~(d \in DOMAIN f /\ f[d].kind = "dir")
        /\ SubSeq(d, 1, Len(d) - 1) \in DOMAIN f
        /\ f[SubSeq(d, 1, Len(d) - 1)].kind = "dir"

WriteFile(f, d, data, b) ==
    [q \in DOMAIN f \cup {d} |-> IF q = d THEN File(data, b) ELSE f[q]]

\* shutil.copyfile(src, dst) when CanCopy: dst is created or overwritten
\* with the bytes of src.  b is the run that writes.
\* (faulty variants: one keeps a dst that exists, one removes src)
copyfile_keeps_existing(f, src, dst, b) ==
    IF Resolve(dst) \in DOMAIN f THEN f
    ELSE WriteFile(f, Resolve(dst), f[Resolve(src)].data, b)
copyfile_moves(f, src, dst, b) ==
    LET g == WriteFile(f, Resolve(dst), f[Resolve(src)].data, b)
    IN  [q \in DOMAIN g \ {Resolve(src)} |-> g[q]]
copyfile(f, src, dst, b) == WriteFile(f, Resolve(dst), f[Resolve(src)].data, b)

\* fnmatch of one name against one pattern segment.  A pattern is a literal
\* name or a literal prefix followed by "*"; glob never matches a name that
\* starts with "." unless the pattern does.
fnmatch(name, pat) ==
    /\ (name /= <<>> /\ Head(name) = ".") => Head(pat) = "."
    /\ IF pat[Len(pat)] = "*"
       THEN /\ Len(name) >= Len(pat) - 1
            /\ SubSeq(name, 1, Len(pat) - 1) = SubSeq(pat, 1, Len(pat) - 1)
       ELSE name = pat

\* the paths under base matching the pattern segments pats, one per level
RECURSIVE globPaths(_, _, _)
globPaths(f, base, pats) ==
    IF pats = <<>> THEN {base}
    ELSE UNION {globPaths(f, Append(base, n), Tail(pats)) :
                   n \in {m \in children(f, base) : fnmatch(m, Head(pats))}}

\* glob.glob(pattern) for an absolute pattern: the matching path strings
glob(f, pattern) == {PathString(q) : q \in globPaths(f, <<>>, Resolve(pattern))}

----------------------------------------------------------------------------
(* The fixed paths of the mirror *)

\* the normalized absolute paths of lines 29 and 30, shortened to one name
repo_dir == <<sep, "local-maven-repo">>
input_dir == <<sep, "Debug">>

\* line 34
cache_files ==
    join(input_dir, <<"caches", sep, "modules-", "*", sep, "files-", "*">>)

\* the loop's derived paths (lines 37-38, 40-41, 43-44, 47, 49-50)
cache_group_dir == join(cache_dir, cache_group_id)
repo_group_dir == join(repo_dir, replace(cache_group_id, ".", sep))
cache_artifact_dir == join(cache_group_dir, cache_artifact_id)
repo_artifact_dir == join(repo_group_dir, cache_artifact_id)
cache_version_dir(v) == join(cache_artifact_dir, v)
repo_version_dir(v) == join(repo_artifact_dir, v)
cache_items_pattern(v) == join(cache_version_dir(v), <<"*", sep, "*">>)
cache_item_name(item) == basename(item)
repo_item_path(item) == join(repo_version_dir(cache_version_id), cache_item_name(item))

----------------------------------------------------------------------------
(* The inputs: what Init may put on the disk *)

Debug == <<"Debug">>
caches == <<"caches">>
modules2 == <<"modules-", "2">>
modules3 == <<"modules-", "3">>
files2 == <<"files-", "2", ".", "1">>
metadata2 == <<"metadata-", "2">>
Root2 == <<Debug, caches, modules2, files2>>
Root3 == <<Debug, caches, modules3, files2>>
RootMeta == <<Debug, caches, modules2, metadata2>>

id_a == <<"a">>
id_b == <<"b">>
id_c == <<"c">>
id_v == <<"v">>
file_f == <<"f">>
file_g == <<"g">>
hash1 == <<"h", "1">>
hash2 == <<"h", "2">>
group_a_b == <<"a", ".", "b">>
group_dot_a == <<".", "a">>
file_dot_h == <<".", "h">>

\* the files the cache may hold, each with the contents it may have
CacheFiles ==
    { \* a leaf of group "a.b", and a second file beside it
      [path |-> Root2 \o <<group_a_b, id_c, id_v, hash1, file_f>>, data |-> {1}],
      [path |-> Root2 \o <<group_a_b, id_c, id_v, hash1, file_g>>, data |-> {2}],
      \* a file of the same name under another hash directory
      [path |-> Root2 \o <<group_a_b, id_c, id_v, hash2, file_f>>, data |-> {1, 3}],
      \* the same leaf in a second cache root
      [path |-> Root3 \o <<group_a_b, id_c, id_v, hash1, file_f>>, data |-> {1, 4}],
      \* a file of group "a" whose destination a/b/c/v is a directory of "a.b"
      [path |-> Root2 \o <<id_a, id_b, id_c, hash1, id_v>>, data |-> {5}],
      \* a hidden file
      [path |-> Root2 \o <<group_a_b, id_c, id_v, hash1, file_dot_h>>, data |-> {6}],
      \* a group whose name starts with "."
      [path |-> Root2 \o <<group_dot_a, id_c, id_v, hash1, file_f>>, data |-> {7}],
      \* a plain file where the group directories are
      [path |-> Root2 \o <<file_g>>, data |-> {8}],
      \* a leaf in a directory the pattern of line 34 does not match
      [path |-> RootMeta \o <<group_a_b, id_c, id_v, hash1, file_f>>, data |-> {9}] }

SourceFiles == {x.path : x \in CacheFiles}
Contents(q) == (CHOOSE x \in CacheFiles : x.path = q).data

Repo == <<"local-maven-repo">>

\* What the destination may hold before the first run.  local-maven-repo is
\* absent or a directory; it is never a plain file or a link.
StaleFiles == { <<Repo, id_a, id_b, id_c, id_v, file_f>>, <<Repo, <<"o", "l", "d">>>> }
StaleData == [q \in StaleFiles |-> 10]

\* the filesystem holding the given files (path -> data), born in run 0
Disk(files) ==
    LET paths == DOMAIN files \cup {<<Debug, caches>>}
        dirs == UNION {{SubSeq(q, 1, k) : k \in 0..Len(q)} : q \in paths} \ DOMAIN files
    IN  [q \in dirs \cup DOMAIN files |->
            IF q \in DOMAIN files THEN File(files[q], 0) ELSE Dir(0)]

\* the destination tree of f, without the history field
Tree(f) ==
    [q \in {x \in DOMAIN f : IsUnder(x, Resolve(repo_dir))} |->
        [kind |-> f[q].kind, data |-> f[q].data]]

NoFiles == [q \in {} |-> 0]

----------------------------------------------------------------------------
(* The Cache Mirror: main() of create_local_maven_repo.py *)

NoLocals ==
    /\ cache_dirs' = {} /\ cache_dir' = <<>>
    /\ group_ids' = {} /\ cache_group_id' = <<>>
    /\ artifact_ids' = {} /\ cache_artifact_id' = <<>>
    /\ version_ids' = {} /\ cache_version_id' = <<>>
    /\ cache_items' = {}

\* the generator and the lookup calls when they are not the program run
GenIdle ==
    /\ gpc = "off" /\ descriptor = <<>> /\ out = <<>> /\ out0 = <<>>
    /\ client = <<>> /\ project = <<>> /\ oauth_client = <<>> /\ api_key = <<>>
    /\ xml = <<>> /\ gerr = ""

LookupIdle == call = "off" /\ args = <<>> /\ result = <<>>

InitMirror ==
    /\ GenIdle
    /\ LookupIdle
    /\ \E S \in SUBSET SourceFiles, T \in {{}, StaleFiles} :
         /\ Cardinality(S) <= MaxSourceFiles
         /\ \E data \in [S -> 1..9] :
              /\ \A q \in S : data[q] \in Contents(q)
              /\ fs = Disk([q \in S \cup T |-> IF q \in S THEN data[q] ELSE StaleData[q]])
    /\ pc = "start"
    /\ run = 1
    /\ cache_dirs = {} /\ cache_dir = <<>>
    /\ group_ids = {} /\ cache_group_id = <<>>
    /\ artifact_ids = {} /\ cache_artifact_id = <<>>
    /\ version_ids = {} /\ cache_version_id = <<>>
    /\ cache_items = {}
    /\ stdout = <<>>
    /\ copied = <<>>
    /\ prev = [has |-> FALSE, tree |-> NoFiles, copied |-> <<>>]
    /\ before = Tree(fs)

\* the process ends with an uncaught exception, leaving the disk as g
Raise(g) ==
    /\ pc' = "aborted"
    /\ fs' = g
    /\ NoLocals
    /\ UNCHANGED <<run, stdout, copied, prev, before, genVars, lookupVars>>

\* lines 28-35: remove the destination, then glob the cache roots
ClearRepo ==
    /\ pc = "start"
    /\ LET g == IF isdir(fs, repo_dir) THEN rmtree(fs, repo_dir) ELSE fs
       IN  /\ fs' = g
           /\ cache_dirs' = glob(g, cache_files)
    /\ pc' = "cache_dirs"
    /\ UNCHANGED <<run, cache_dir, group_ids, cache_group_id, artifact_ids,
                   cache_artifact_id, version_ids, cache_version_id, cache_items,
                   stdout, copied, prev, before, genVars, lookupVars>>

\* lines 35-36: the next cache root and its listing
NextCacheDir ==
    /\ pc = "cache_dirs"
    /\ \E d \in cache_dirs :
         IF isdir(fs, d)
         THEN /\ cache_dir' = d
              /\ cache_dirs' = cache_dirs \ {d}
              /\ group_ids' = listdir(fs, d)
              /\ pc' = "groups"
              /\ UNCHANGED <<fs, run, cache_group_id, artifact_ids, cache_artifact_id,
                             version_ids, cache_version_id, cache_items, stdout,
                             copied, prev, before, genVars, lookupVars>>
         ELSE Raise(fs)

\* line 53: the loop over the cache roots is over, main returns 0
Return ==
    /\ pc = "cache_dirs"
    /\ cache_dirs = {}
    /\ pc' = "done"
    /\ NoLocals
    /\ UNCHANGED <<fs, run, stdout, copied, prev, before, genVars, lookupVars>>

\* lines 36-39: the next group and the listing of its directory
NextGroup ==
    /\ pc = "groups"
    /\ \E g \in group_ids :
         IF isdir(fs, join(cache_dir, g))
         THEN /\ cache_group_id' = g
              /\ group_ids' = group_ids \ {g}
              /\ artifact_ids' = listdir(fs, join(cache_dir, g))
              /\ pc' = "artifacts"
              /\ UNCHANGED <<fs, run, cache_dirs, cache_dir, cache_artifact_id,
                             version_ids, cache_version_id, cache_items, stdout,
                             copied, prev, before, genVars, lookupVars>>
         ELSE Raise(fs)

EndGroups ==
    /\ pc = "groups"
    /\ group_ids = {}
    /\ pc' = "cache_dirs"
    /\ cache_dir' = <<>>
    /\ UNCHANGED <<fs, run, cache_dirs, group_ids, cache_group_id, artifact_ids,
                   cache_artifact_id, version_ids, cache_version_id, cache_items,
                   stdout, copied, prev, before, genVars, lookupVars>>

\* lines 39-42: the next artifact and the listing of its directory
NextArtifact ==
    /\ pc = "artifacts"
    /\ \E x \in artifact_ids :
         IF isdir(fs, join(cache_group_dir, x))
         THEN /\ cache_artifact_id' = x
              /\ artifact_ids' = artifact_ids \ {x}
              /\ version_ids' = listdir(fs, join(cache_group_dir, x))
              /\ pc' = "versions"
              /\ UNCHANGED <<fs, run, cache_dirs, cache_dir, group_ids, cache_group_id,
                             cache_version_id, cache_items, stdout, copied, prev, before, genVars, lookupVars>>
         ELSE Raise(fs)

EndArtifacts ==
    /\ pc = "artifacts"
    /\ artifact_ids = {}
    /\ pc' = "groups"
    /\ cache_group_id' = <<>>
    /\ UNCHANGED <<fs, run, cache_dirs, cache_dir, group_ids, artifact_ids,
                   cache_artifact_id, version_ids, cache_version_id, cache_items,
                   stdout, copied, prev, before, genVars, lookupVars>>

\* lines 42-48: the next version: its destination directory is created when
\* it is missing, and its items are globbed
NextVersion ==
    /\ pc = "versions"
    /\ \E x \in version_ids :
         LET made == IF isdir(fs, repo_version_dir(x))
                     THEN [ok |-> TRUE, fs |-> fs]
                     ELSE makedirs(fs, repo_version_dir(x), run)
         IN  IF made.ok
             THEN /\ fs' = made.fs
                  /\ cache_version_id' = x
                  /\ version_ids' = version_ids \ {x}
                  /\ cache_items' = glob(made.fs, cache_items_pattern(x))
                  /\ pc' = "items"
                  /\ UNCHANGED <<run, cache_dirs, cache_dir, group_ids, cache_group_id,
                                 artifact_ids, cache_artifact_id, stdout, copied, prev, before, genVars, lookupVars>>
             ELSE Raise(fs)

EndVersions ==
    /\ pc = "versions"
    /\ version_ids = {}
    /\ pc' = "artifacts"
    /\ cache_artifact_id' = <<>>
    /\ UNCHANGED <<fs, run, cache_dirs, cache_dir, group_ids, cache_group_id,
                   artifact_ids, version_ids, cache_version_id, cache_items,
                   stdout, copied, prev, before, genVars, lookupVars>>

\* lines 48-52: the next item is reported and copied
CopyItem ==
    /\ pc = "items"
    /\ \E item \in cache_items :
         LET line == <<cache_group_id, cache_artifact_id, cache_version_id,
                       cache_item_name(item)>>
         IN  IF CanCopy(fs, item, repo_item_path(item))
             THEN /\ fs' = copyfile(fs, item, repo_item_path(item), run)
                  /\ cache_items' = cache_items \ {item}
                  /\ stdout' = Append(stdout, line)
                  /\ copied' = Append(copied, [src |-> item, dst |-> repo_item_path(item)])
                  /\ UNCHANGED <<pc, run, cache_dirs, cache_dir, group_ids,
                                 cache_group_id, artifact_ids, cache_artifact_id,
                                 version_ids, cache_version_id, prev, before, genVars, lookupVars>>
             ELSE /\ pc' = "aborted"
                  /\ stdout' = Append(stdout, line)
                  /\ NoLocals
                  /\ UNCHANGED <<fs, run, copied, prev, before, genVars, lookupVars>>

EndItems ==
    /\ pc = "items"
    /\ cache_items = {}
    /\ pc' = "versions"
    /\ cache_version_id' = <<>>
    /\ UNCHANGED <<fs, run, cache_dirs, cache_dir, group_ids, cache_group_id,
                   artifact_ids, cache_artifact_id, version_ids, cache_items,
                   stdout, copied, prev, before, genVars, lookupVars>>

\* A filesystem call of the walk fails for a reason outside the program
\* (permission denied, the source vanishing): the exception is not caught.
FsError ==
    /\ \/ pc = "cache_dirs" /\ cache_dirs /= {}
       \/ pc = "groups" /\ group_ids /= {}
       \/ pc = "artifacts" /\ artifact_ids /= {}
       \/ pc = "versions" /\ version_ids /= {}
    /\ Raise(fs)

\* shutil.copyfile fails while writing: the destination file was opened for
\* writing, so it exists, with none of the source's bytes (data 0)
CopyInterrupted ==
    /\ pc = "items"
    /\ \E item \in cache_items :
         /\ CanCopy(fs, item, repo_item_path(item))
         /\ fs' = WriteFile(fs, Resolve(repo_item_path(item)), 0, run)
         /\ stdout' = Append(stdout, <<cache_group_id, cache_artifact_id,
                                       cache_version_id, cache_item_name(item)>>)
    /\ pc' = "aborted"
    /\ NoLocals
    /\ UNCHANGED <<run, copied, prev, before, genVars, lookupVars>>

\* the script is run again after a run that completed, on the disk it left
Rerun ==
    /\ pc = "done"
    /\ run < MaxRuns
    /\ run' = run + 1
    /\ pc' = "start"
    /\ stdout' = <<>>
    /\ copied' = <<>>
    /\ prev' = [has |-> TRUE, tree |-> Tree(fs), copied |-> copied]
    /\ before' = Tree(fs)
    /\ UNCHANGED <<fs, cache_dirs, cache_dir, group_ids, cache_group_id,
                   artifact_ids, cache_artifact_id, version_ids, cache_version_id,
                   cache_items, genVars, lookupVars>>

NextMirror ==
    \/ ClearRepo
    \/ NextCacheDir
    \/ Return
    \/ NextGroup
    \/ EndGroups
    \/ NextArtifact
    \/ EndArtifacts
    \/ NextVersion
    \/ EndVersions
    \/ CopyItem
    \/ EndItems
    \/ FsError
    \/ CopyInterrupted
    \/ Rerun

----------------------------------------------------------------------------
(* What the claims about the Cache Mirror speak of, stated on the disk     *)
(* alone: none of these definitions uses the operators of the walk.        *)

HasPrefix(name, lit) == name /= <<>> /\ Head(name) = lit
Hidden(name) == HasPrefix(name, ".")

\* the depth of a leaf file: Debug/caches/modules-*/files-*/g/a/v/hash/file
LeafDepth == Len(Root2) + 5

InMatchedRoot(q) ==
    /\ Len(q) > Len(Root2)
    /\ q[1] = Debug /\ q[2] = caches
    /\ HasPrefix(q[3], "modules-") /\ HasPrefix(q[4], "files-")

\* the leaf files of the matched cache roots
Leaves(f) == {q \in DOMAIN f : InMatchedRoot(q) /\ Len(q) = LeafDepth /\ f[q].kind = "file"}

\* a valid nested cache tree: the matched roots hold nothing but leaves, and
\* no name below them starts with "."
ValidTree(f) ==
    \A q \in DOMAIN f :
        InMatchedRoot(q) =>
            /\ ~Hidden(q[Len(q)])
            /\ f[q].kind = "file" => Len(q) = LeafDepth

\* a group id cut at its dots
RECURSIVE DotParts(_, _)
DotParts(name, cur) ==
    IF name = <<>> THEN (IF cur = <<>> THEN <<>> ELSE <<cur>>)
    ELSE IF Head(name) = "."
         THEN (IF cur = <<>> THEN <<>> ELSE <<cur>>) \o DotParts(Tail(name), <<>>)
         ELSE DotParts(Tail(name), Append(cur, Head(name)))

\* dest/<group, dots as separators>/<artifact>/<version>/<file> of a leaf
Dest(q) ==
    <<Repo>> \o DotParts(q[Len(Root2) + 1], <<>>)
             \o <<q[Len(Root2) + 2], q[Len(Root2) + 3], q[LeafDepth]>>

InRepo(q) == Len(q) >= 1 /\ q[1] = Repo

\* the index of the last copy into path p, 0 when there is none
LastCopyTo(p) ==
    LET hits == {i \in DOMAIN copied : Resolve(copied[i].dst) = p}
    IN  IF hits = {} THEN 0 ELSE CHOOSE i \in hits : \A j \in hits : j <= i

\* two leaves of different content have the same destination
Clash(f) ==
    \E q1, q2 \in Leaves(f) : Dest(q1) = Dest(q2) /\ f[q1].data /= f[q2].data

----------------------------------------------------------------------------
(* C1 *)

\* C1, as stated: for every valid nested cache tree, when main has returned
\* every leaf of a matched cache root is at its destination path,
\* byte-identical to that leaf.
C1_AsStated ==
    (pc = "done" /\ ValidTree(fs)) =>
        \A q \in Leaves(fs) :
            /\ Dest(q) \in DOMAIN fs
            /\ fs[Dest(q)].kind = "file"
            /\ fs[Dest(q)].data = fs[q].data

\* C1, amended: for every valid nested cache tree, when main has returned
\* every leaf of a matched cache root was copied to its destination path, and
\* the file there is byte-identical to the leaf copied there last (which is a
\* leaf with that destination); so it is byte-identical to every leaf mapped
\* there unless leaves of different content share the destination.
C1_Mirrored ==
    (pc = "done" /\ ValidTree(fs)) =>
        \A q \in Leaves(fs) :
            LET k == LastCopyTo(Dest(q))
            IN  /\ Dest(q) \in DOMAIN fs
                /\ fs[Dest(q)].kind = "file"
                /\ \E i \in DOMAIN copied : Resolve(copied[i].src) = q
                /\ k /= 0
                /\ Resolve(copied[k].src) \in Leaves(fs)
                /\ Dest(Resolve(copied[k].src)) = Dest(q)
                /\ fs[Dest(q)].data = fs[Resolve(copied[k].src)].data
                /\ ~Clash(fs) => fs[Dest(q)].data = fs[q].data

\* a completed run on a valid tree that holds a leaf of a dotted group
C1_Witness ==
    /\ pc = "done" /\ ValidTree(fs)
    /\ \E q \in Leaves(fs) :
         /\ Len(DotParts(q[Len(Root2) + 1], <<>>)) = 2
         /\ fs[Dest(q)].data = fs[q].data
         /\ \E q2 \in Leaves(fs) : q2 /= q /\ Dest(q2) = Dest(q)

----------------------------------------------------------------------------
(* C2 *)

\* C2: when a run has completed, nothing that was in the destination before
\* the run remains: every entry of the destination tree was created by this
\* run.
C2_DestinationCleared ==
    pc = "done" => \A q \in DOMAIN fs : InRepo(q) => fs[q].born = run

\* a completed run that found unrelated content in the destination: a file
\* that is gone, and a file whose path the run wrote again
C2_Witness ==
    /\ pc = "done"
    /\ \E q \in DOMAIN before : before[q].kind = "file" /\ q \notin DOMAIN fs
    /\ \E q \in DOMAIN before :
         /\ before[q].kind = "file" /\ q \in DOMAIN fs
         /\ fs[q].data /= before[q].data

----------------------------------------------------------------------------
(* C3 *)

\* C3, as stated: the destination tree after a second completed run equals
\* the tree after the first, whatever the enumeration order of each run.
C3_AsStated ==
    (pc = "done" /\ prev.has) => Tree(fs) = prev.tree

\* C3, amended: the destination tree after a second completed run equals the
\* tree after the first when both runs copied in the same order, and, in any
\* order, when no two leaves of different content share a destination.
C3_Idempotent ==
    (pc = "done" /\ prev.has /\ (copied = prev.copied \/ ~Clash(fs))) =>
        Tree(fs) = prev.tree

\* two completed runs that copied in different orders
C3_Witness ==
    /\ pc = "done" /\ prev.has
    /\ copied /= prev.copied
    /\ ~Clash(fs)
    /\ \E q \in DOMAIN prev.tree : prev.tree[q].kind = "file"

----------------------------------------------------------------------------
(* C7 *)

\* C7: when a run has completed, every copy was made (leaves that share a
\* destination included), and each destination file holds the content of the
\* source that was copied to it last.
C7_LastWriterWins ==
    pc = "done" =>
        /\ \A i \in DOMAIN copied :
             LastCopyTo(Resolve(copied[i].dst)) = i =>
                 /\ Resolve(copied[i].dst) \in DOMAIN fs
                 /\ fs[Resolve(copied[i].dst)].data = fs[Resolve(copied[i].src)].data
        /\ \A q1, q2 \in Leaves(fs) :
             (ValidTree(fs) /\ Dest(q1) = Dest(q2)) =>
                 \E i, j \in DOMAIN copied :
                     Resolve(copied[i].src) = q1 /\ Resolve(copied[j].src) = q2

\* a completed run in which a copy overwrote another one's different bytes
C7_Witness ==
    /\ pc = "done"
    /\ \E i, j \in DOMAIN copied :
         /\ i < j
         /\ Resolve(copied[i].dst) = Resolve(copied[j].dst)
         /\ fs[Resolve(copied[i].src)].data /= fs[Resolve(copied[j].src)].data

----------------------------------------------------------------------------
(* C8 *)

\* what an aborted run leaves in the destination: entries this run created,
\* each a directory above a leaf's destination or a leaf's destination file,
\* holding that leaf's bytes or, when the copy was interrupted, none
AbortedDestination ==
    pc = "aborted" =>
        \A q \in DOMAIN fs :
            InRepo(q) =>
                /\ fs[q].born = run
                /\ \E s \in Leaves(fs) : IsUnder(Dest(s), q)
                /\ fs[q].kind = "file" =>
                       \E s \in Leaves(fs) :
                           Dest(s) = q /\ fs[q].data \in {fs[s].data, 0}

----------------------------------------------------------------------------
(* JSON values.  A scalar is [type, text]: its Python type and the text    *)
(* str.format writes for it.  A dict is a function from keys, a list a     *)
(* sequence.                                                               *)

Str(t) == [type |-> "str", text |-> t]
Number(t) == [type |-> "int", text |-> t]
None == [type |-> "NoneType", text |-> "None"]

\* the truth value Python gives a scalar
Truthy(x) == x /= None /\ x /= Str("") /\ x /= Number("0")

\* dict.get(k): None when the key is missing
Get(o, k) == IF k \in DOMAIN o THEN o[k] ELSE None

\* a call's outcome: a value returned, or an exception raised
Returned(x) == [err |-> "", val |-> x]
Raised(e) == [err |-> e, val |-> <<>>]

\* d[k1][k2]...: KeyError at the first missing key
RECURSIVE Lookup(_, _)
Lookup(d, keys) ==
    IF keys = <<>> THEN Returned(d)
    ELSE IF Head(keys) \in DOMAIN d THEN Lookup(d[Head(keys)], Tail(keys))
    ELSE Raised("KeyError")

Without(d, k) == [x \in DOMAIN d \ {k} |-> d[x]]

NoDict == [x \in {} |-> None]

----------------------------------------------------------------------------
(* The functions of refresh_google_services_json.py *)

CLIENT_ID == Str("com.demiurgestudios.setestapp")

\* lines 31-36: the first client whose package name is client_id, with the
\* project info
\* (find_client_or_first: the faulty variant that falls back to the first client)
RECURSIVE find_client(_, _, _)
RECURSIVE find_client_or_first(_, _, _)
find_client_or_first(data, clients, client_id) ==
    IF clients = <<>>
    THEN (IF data["client"] = <<>> THEN Raised("Client not found")
          ELSE Returned(<<data["client"][1], data["project_info"]>>))
    ELSE LET package_name ==
                 Lookup(Head(clients), <<"client_info", "android_client_info", "package_name">>)
         IN  IF package_name.err /= "" THEN package_name
             ELSE IF package_name.val = client_id
                  THEN Returned(<<Head(clients), data["project_info"]>>)
                  ELSE find_client_or_first(data, Tail(clients), client_id)
find_client(data, clients, client_id) ==
    IF clients = <<>> THEN Raised("Client not found")
    ELSE LET package_name ==
                 Lookup(Head(clients), <<"client_info", "android_client_info", "package_name">>)
         IN  IF package_name.err /= "" THEN package_name
             ELSE IF package_name.val = client_id
                  THEN Returned(<<Head(clients), data["project_info"]>>)
                  ELSE find_client(data, Tail(clients), client_id)

\* load_services_json, after the file is parsed into data
load_services_json(data, client_id) == find_client(data, data["client"], client_id)

\* lines 44-48: every key/value pair of match is o's
is_match(o, match) == \A k \in DOMAIN match : Get(o, k) = match[k]

\* get_matching: the first object of the list that is a match
\* (get_matching_last: the faulty variant that returns the last match)
RECURSIVE get_matching(_, _)
RECURSIVE get_matching_last(_, _)
get_matching_last(objects, match) ==
    IF objects = <<>> THEN Raised("Could not find object")
    ELSE IF is_match(objects[Len(objects)], match) THEN Returned(objects[Len(objects)])
    ELSE get_matching_last(SubSeq(objects, 1, Len(objects) - 1), match)
get_matching(objects, match) ==
    IF objects = <<>> THEN Raised("Could not find object")
    ELSE IF is_match(Head(objects), match) THEN Returned(Head(objects))
    ELSE get_matching(Tail(objects), match)

\* lines 59-64: the first truthy current_key of a list of api_key records
\* (first_current_key_or_empty: the faulty variant that defaults to "")
RECURSIVE first_current_key(_)
RECURSIVE first_current_key_or_empty(_)
first_current_key_or_empty(keys) ==
    IF keys = <<>> THEN Returned(Str(""))
    ELSE IF Truthy(Get(Head(keys), "current_key"))
    THEN Returned(Get(Head(keys), "current_key"))
    ELSE first_current_key_or_empty(Tail(keys))
first_current_key(keys) ==
    IF keys = <<>> THEN Raised("No current api key")
    ELSE IF Truthy(Get(Head(keys), "current_key"))
    THEN Returned(Get(Head(keys), "current_key"))
    ELSE first_current_key(Tail(keys))

\* get_current_api_key
\* (get_current_api_key_of_first_record: the faulty variant that does not skip)
get_current_api_key_of_first_record(cl) ==
    IF "api_key" \notin DOMAIN cl THEN Raised("KeyError")
    ELSE IF cl["api_key"] = <<>> THEN Raised("No current api key")
    ELSE Returned(Get(cl["api_key"][1], "current_key"))
get_current_api_key(cl) ==
    IF "api_key" \notin DOMAIN cl THEN Raised("KeyError")
    ELSE first_current_key(cl["api_key"])

\* lines 104-112: the string resources of the template, each with the
\* format field that fills it
VALUES_XML_TEMPLATE ==
    << [name |-> "google_app_id", field |-> "google_app_id"],
       [name |-> "gcm_defaultSenderId", field |-> "gcm_default_sender_id"],
       [name |-> "default_web_client_id", field |-> "default_web_client_id"],
       [name |-> "firebase_database_url", field |-> "firebase_db_url"],
       [name |-> "google_api_key", field |-> "google_api_key"],
       [name |-> "google_crash_reporting_api_key", field |-> "google_crash_reporting_api_key"],
       [name |-> "project_id", field |-> "project_id"] >>

\* VALUES_XML_TEMPLATE.format(**kwargs): each field replaced by its text
format(template, kwargs) ==
    [i \in DOMAIN template |->
        [name |-> template[i].name, text |-> kwargs[template[i].field].text]]

\* lines 74-82: the arguments of format, or the KeyError of the first
\* subscript that fails
\* (format_args_ids_swapped: the faulty variant that swaps sender id and
\* project id)
format_args_ids_swapped(cl, proj, oauth, key) ==
    LET app == Lookup(cl, <<"client_info", "mobilesdk_app_id">>)
        num == Lookup(proj, <<"project_number">>)
        web == Lookup(oauth, <<"client_id">>)
        url == Lookup(proj, <<"firebase_url">>)
        pid == Lookup(proj, <<"project_id">>)
    IN  IF \E r \in {app, num, web, url, pid} : r.err /= "" THEN Raised("KeyError")
        ELSE Returned([google_app_id |-> app.val,
                       gcm_default_sender_id |-> pid.val,
                       default_web_client_id |-> web.val,
                       firebase_db_url |-> url.val,
                       google_api_key |-> key,
                       google_crash_reporting_api_key |-> key,
                       project_id |-> num.val])
format_args(cl, proj, oauth, key) ==
    LET app == Lookup(cl, <<"client_info", "mobilesdk_app_id">>)
        num == Lookup(proj, <<"project_number">>)
        web == Lookup(oauth, <<"client_id">>)
        url == Lookup(proj, <<"firebase_url">>)
        pid == Lookup(proj, <<"project_id">>)
    IN  IF \E r \in {app, num, web, url, pid} : r.err /= "" THEN Raised("KeyError")
        ELSE Returned([google_app_id |-> app.val,
                       gcm_default_sender_id |-> num.val,
                       default_web_client_id |-> web.val,
                       firebase_db_url |-> url.val,
                       google_api_key |-> key,
                       google_crash_reporting_api_key |-> key,
                       project_id |-> pid.val])

----------------------------------------------------------------------------
(* The descriptors Init may put in google-services.json *)

\* a descriptor has at most this many clients
MaxClients == 2

OauthEntry(type, id) == [client_type |-> type, client_id |-> id]
Android == OauthEntry(Number("1"), Str("android.apps"))
Web == OauthEntry(Number("3"), Str("web.apps"))
Web2 == OauthEntry(Number("3"), Str("web2.apps"))

OauthLists ==
    { <<Android, Web>>,
      <<>>,
      <<Android>>,
      <<Web, Web2>>,
      <<Without(Web, "client_id")>>,
      <<Without(Web2, "client_type"), Web>>,
      <<OauthEntry(Str("3"), Str("text.apps"))>> }

Key(k) == [current_key |-> k]

KeyLists ==
    { <<Key(Str("AIza1"))>>,
      <<>>,
      <<Key(Str("")), Key(Str("AIza2"))>>,
      <<NoDict, Key(Str("AIza2")), Key(Str("AIza1"))>>,
      <<Key(Str("")), NoDict>> }

Client(pkg, app, oauth, keys) ==
    [client_info |-> [mobilesdk_app_id |-> Str(app),
                      android_client_info |-> [package_name |-> pkg]],
     oauth_client |-> oauth,
     api_key |-> keys]

BaseClient == Client(CLIENT_ID, "1:123:android:abc", <<Android, Web>>, <<Key(Str("AIza1"))>>)

NoAppId(cl) == [cl EXCEPT !["client_info"] = Without(cl["client_info"], "mobilesdk_app_id")]

\* clients registered for CLIENT_ID: the base client with one part varied
Clients ==
    {Client(CLIENT_ID, "1:123:android:abc", o, <<Key(Str("AIza1"))>>) : o \in OauthLists}
    \cup {Client(CLIENT_ID, "1:123:android:abc", <<Android, Web>>, k) : k \in KeyLists}
    \cup { NoAppId(BaseClient),
           Without(BaseClient, "oauth_client"),
           Without(BaseClient, "api_key"),
           \* a second registration of CLIENT_ID, and one of another package
           Client(CLIENT_ID, "1:456:android:def", <<Web2>>, <<Key(Str("AIza2"))>>),
           Client(Str("com.example.other"), "1:789:android:ghi", <<Web2>>,
                  <<Key(Str("AIza3"))>>) }

BaseProject ==
    [project_number |-> Str("123"),
     firebase_url |-> Str("https://x.firebaseio.com"),
     project_id |-> Str("proj")]

Projects ==
    {BaseProject} \cup {Without(BaseProject, k) : k \in DOMAIN BaseProject}

ClientLists == UNION {[1..n -> Clients] : n \in 0..MaxClients}

\* res/values/google_services.xml before the run: its directory missing, or
\* the file missing, or a file written earlier
OldXml == <<[name |-> "google_app_id", text |-> "old"]>>

Outputs ==
    { [dir |-> FALSE, exists |-> FALSE, content |-> <<>>],
      [dir |-> TRUE, exists |-> FALSE, content |-> <<>>],
      [dir |-> TRUE, exists |-> TRUE, content |-> OldXml] }

----------------------------------------------------------------------------
(* The Service-Config Generator: main() and build_values_xml *)

MirrorIdle ==
    /\ fs = NoFiles /\ pc = "off" /\ run = 0
    /\ cache_dirs = {} /\ cache_dir = <<>>
    /\ group_ids = {} /\ cache_group_id = <<>>
    /\ artifact_ids = {} /\ cache_artifact_id = <<>>
    /\ version_ids = {} /\ cache_version_id = <<>>
    /\ cache_items = {}
    /\ stdout = <<>> /\ copied = <<>>
    /\ prev = [has |-> FALSE, tree |-> NoFiles, copied |-> <<>>]
    /\ before = NoFiles

InitGen ==
    /\ MirrorIdle
    /\ LookupIdle
    /\ gpc = "main"
    /\ \E cl \in ClientLists, proj \in Projects :
         descriptor = [client |-> cl, project_info |-> proj]
    /\ out \in Outputs
    /\ out0 = out
    /\ client = <<>> /\ project = <<>> /\ oauth_client = <<>> /\ api_key = <<>>
    /\ xml = <<>> /\ gerr = ""

\* an exception leaves main(): the process ends
Fail(e) ==
    /\ gpc' = "failed"
    /\ gerr' = e
    /\ client' = <<>> /\ project' = <<>> /\ oauth_client' = <<>> /\ api_key' = <<>>
    /\ xml' = <<>>
    /\ UNCHANGED <<descriptor, out, out0, mirrorVars, lookupVars>>

\* line 94
LoadServicesJson ==
    /\ gpc = "main"
    /\ LET r == load_services_json(descriptor, CLIENT_ID)
       IN  IF r.err = ""
           THEN /\ client' = r.val[1]
                /\ project' = r.val[2]
                /\ gpc' = "build"
                /\ UNCHANGED <<descriptor, out, out0, oauth_client, api_key, xml, gerr,
                               mirrorVars, lookupVars>>
           ELSE Fail(r.err)

\* line 71
GetOauthClient ==
    /\ gpc = "build"
    /\ LET r == IF "oauth_client" \in DOMAIN client
                THEN get_matching(client["oauth_client"], [client_type |-> Number("3")])
                ELSE Raised("KeyError")
       IN  IF r.err = ""
           THEN /\ oauth_client' = r.val
                /\ gpc' = "api_key"
                /\ UNCHANGED <<descriptor, out, out0, client, project, api_key, xml, gerr,
                               mirrorVars, lookupVars>>
           ELSE Fail(r.err)

\* line 72
GetCurrentApiKey ==
    /\ gpc = "api_key"
    /\ LET r == get_current_api_key(client)
       IN  IF r.err = ""
           THEN /\ api_key' = r.val
                /\ gpc' = "format"
                /\ UNCHANGED <<descriptor, out, out0, client, project, oauth_client, xml,
                               gerr, mirrorVars, lookupVars>>
           ELSE Fail(r.err)

\* lines 74-84
FormatXml ==
    /\ gpc = "format"
    /\ LET r == format_args(client, project, oauth_client, api_key)
       IN  IF r.err = ""
           THEN /\ xml' = format(VALUES_XML_TEMPLATE, r.val)
                /\ gpc' = "open"
                /\ UNCHANGED <<descriptor, out, out0, client, project, oauth_client,
                               api_key, gerr, mirrorVars, lookupVars>>
           ELSE Fail(r.err)

\* line 85: open(xml_path, "w") creates or empties the file; it fails when
\* res/values is no directory
OpenXml ==
    /\ gpc = "open"
    /\ IF out.dir
       THEN /\ out' = [dir |-> TRUE, exists |-> TRUE, content |-> <<>>]
            /\ gpc' = "write"
            /\ UNCHANGED <<descriptor, out0, client, project, oauth_client, api_key, xml,
                           gerr, mirrorVars, lookupVars>>
       ELSE Fail("IOError")

\* line 86, and main's return
WriteXml ==
    /\ gpc = "write"
    /\ out' = [out EXCEPT !.content = xml]
    /\ gpc' = "done"
    /\ UNCHANGED <<descriptor, out0, client, project, oauth_client, api_key, xml, gerr,
                   mirrorVars, lookupVars>>

NextGen ==
    \/ LoadServicesJson
    \/ GetOauthClient
    \/ GetCurrentApiKey
    \/ FormatXml
    \/ OpenXml
    \/ WriteXml

----------------------------------------------------------------------------
(* One call of get_matching or of get_current_api_key on arbitrary input *)

\* a list passed to a lookup has at most this many elements
MaxObjects == 2

Values == {Number("1"), Number("3"), Str("3")}

\* dicts over the keys client_type and client_id
Dicts == UNION {[K -> Values] : K \in SUBSET {"client_type", "client_id"}}

ObjectLists == UNION {[1..n -> Dicts] : n \in 0..MaxObjects}

KeyRecords == {NoDict} \cup {Key(k) : k \in {Str(""), None, Str("AIza1"), Str("AIza2")}}

\* an api_key list passed to get_current_api_key has at most this many records
MaxKeyRecords == 3

KeyRecordLists == UNION {[1..n -> KeyRecords] : n \in 0..MaxKeyRecords}

Pending == [err |-> "pending", val |-> <<>>]

InitLookup ==
    /\ MirrorIdle
    /\ GenIdle
    /\ result = Pending
    /\ \/ /\ call = "get_matching"
          /\ \E objects \in ObjectLists, match \in Dicts :
               args = [objects |-> objects, match |-> match]
       \/ /\ call = "get_current_api_key"
          /\ \E keys \in KeyRecordLists : args = [client |-> [api_key |-> keys]]

CallGetMatching ==
    /\ call = "get_matching"
    /\ result = Pending
    /\ result' = get_matching(args.objects, args.match)
    /\ UNCHANGED <<call, args, mirrorVars, genVars>>

CallGetCurrentApiKey ==
    /\ call = "get_current_api_key"
    /\ result = Pending
    /\ result' = get_current_api_key(args.client)
    /\ UNCHANGED <<call, args, mirrorVars, genVars>>

NextLookup ==
    \/ CallGetMatching
    \/ CallGetCurrentApiKey

----------------------------------------------------------------------------
(* What the claims about the generator speak of, stated on the descriptor  *)
(* alone: none of these definitions uses the functions of the script.      *)

PackageOf(cl) == cl["client_info"]["android_client_info"]["package_name"]

\* the positions of the clients registered for CLIENT_ID
MatchingClients == {i \in DOMAIN descriptor.client : PackageOf(descriptor.client[i]) = CLIENT_ID}

Least(S) == CHOOSE i \in S : \A j \in S : i <= j

\* the positions of the oauth_client entries of type 3
WebClients(cl) ==
    IF "oauth_client" \notin DOMAIN cl THEN {}
    ELSE {i \in DOMAIN cl["oauth_client"] :
             /\ "client_type" \in DOMAIN cl["oauth_client"][i]
             /\ cl["oauth_client"][i]["client_type"] = Number("3")}

\* the positions of the records of a key list that carry a non-empty current_key
CurrentKeys(keys) ==
    {i \in DOMAIN keys :
        /\ "current_key" \in DOMAIN keys[i]
        /\ keys[i]["current_key"] \notin {Str(""), None}}

\* every extraction step of build_values_xml can succeed on the descriptor
Extractable ==
    /\ MatchingClients /= {}
    /\ LET cl == descriptor.client[Least(MatchingClients)]
       IN  /\ WebClients(cl) /= {}
           /\ "client_id" \in DOMAIN cl["oauth_client"][Least(WebClients(cl))]
           /\ "api_key" \in DOMAIN cl
           /\ CurrentKeys(cl["api_key"]) /= {}
           /\ "mobilesdk_app_id" \in DOMAIN cl["client_info"]
    /\ {"project_number", "firebase_url", "project_id"} \subseteq DOMAIN descriptor.project_info

\* the file the claim describes, for an extractable descriptor
ExpectedXml ==
    LET cl == descriptor.client[Least(MatchingClients)]
        web == cl["oauth_client"][Least(WebClients(cl))]
        key == cl["api_key"][Least(CurrentKeys(cl["api_key"]))]["current_key"]
        proj == descriptor.project_info
    IN  << [name |-> "google_app_id", text |-> cl["client_info"]["mobilesdk_app_id"].text],
           [name |-> "gcm_defaultSenderId", text |-> proj["project_number"].text],
           [name |-> "default_web_client_id", text |-> web["client_id"].text],
           [name |-> "firebase_database_url", text |-> proj["firebase_url"].text],
           [name |-> "google_api_key", text |-> key.text],
           [name |-> "google_crash_reporting_api_key", text |-> key.text],
           [name |-> "project_id", text |-> proj["project_id"].text] >>

----------------------------------------------------------------------------
(* C4 *)

----------------------------------------------------------------------------
(* C5 *)

\* C5: the output file is opened only when every extraction step succeeds:
\* if the matched client has no oauth_client entry of type 3, or no record
\* with a non-empty current_key, or one of the extracted fields is missing,
\* main never reaches the open, and the output stays as it was.
C5_WritesOnlyOnSuccess ==
    /\ gpc \in {"open", "write", "done"} => Extractable
    /\ out /= out0 => Extractable
    /\ gpc = "failed" => out = out0

\* a run that failed in build_values_xml, on the oauth_client lookup, while
\* an earlier output file existed
C5_Witness ==
    /\ gpc = "failed"
    /\ gerr = "Could not find object"
    /\ MatchingClients /= {}
    /\ out0.exists

----------------------------------------------------------------------------
(* C6 *)

\* C6: when main has returned, the output file holds exactly the seven
\* string resources of the template, filled from the first client of
\* CLIENT_ID: its app id, the project number, the client_id of its first
\* oauth_client entry of type 3, the firebase url, its first non-empty
\* current_key (twice) and the project id; nothing of an earlier file is left.
C6_Rendered ==
    gpc = "done" =>
        /\ Extractable
        /\ out = [dir |-> TRUE, exists |-> TRUE, content |-> ExpectedXml]

\* a completed run that replaced an earlier file and had two entries of
\* type 3 to choose from
C6_Witness ==
    /\ gpc = "done"
    /\ out0.exists /\ out0.content /= out.content
    /\ Cardinality(WebClients(descriptor.client[Least(MatchingClients)])) = 2

----------------------------------------------------------------------------
(* C9 *)

\* the positions of the objects that carry every key/value pair of match
Matches(objects, match) ==
    {i \in DOMAIN objects :
        \A k \in DOMAIN match : k \in DOMAIN objects[i] /\ objects[i][k] = match[k]}

\* C9: get_matching returns the first object, in list order, that carries
\* every key/value pair of match, and raises its not-found error when there
\* is none.
C9_GetMatching ==
    (call = "get_matching" /\ result /= Pending) =>
        IF Matches(args.objects, args.match) = {}
        THEN result = [err |-> "Could not find object", val |-> <<>>]
        ELSE result = [err |-> "",
                       val |-> args.objects[Least(Matches(args.objects, args.match))]]

\* a call that returned the second of two objects, on a match of two keys
\* of which the first object carries one
C9_Witness ==
    /\ call = "get_matching" /\ result /= Pending
    /\ Cardinality(DOMAIN args.match) = 2
    /\ Matches(args.objects, args.match) = {2}
    /\ \E k \in DOMAIN args.match :
         k \in DOMAIN args.objects[1] /\ args.objects[1][k] = args.match[k]
    /\ result.val = args.objects[2]

----------------------------------------------------------------------------
(* C10 *)

\* C10: get_current_api_key returns the current_key of the first record, in
\* list order, whose current_key is present and not empty, and raises its
\* no-current-key error when there is none.
C10_GetCurrentApiKey ==
    (call = "get_current_api_key" /\ result /= Pending) =>
        LET keys == args.client["api_key"]
        IN  IF CurrentKeys(keys) = {}
            THEN result = [err |-> "No current api key", val |-> <<>>]
            ELSE result = [err |-> "", val |-> keys[Least(CurrentKeys(keys))]["current_key"]]

\* a call that skipped a record without current_key and one with an empty
\* current_key, and returned the third record's
C10_Witness ==
    /\ call = "get_current_api_key" /\ result /= Pending
    /\ Len(args.client["api_key"]) = 3
    /\ args.client["api_key"][1] = NoDict
    /\ args.client["api_key"][2] = Key(Str(""))
    /\ result.err = ""

SpecMirror == InitMirror /\ [][NextMirror]_vars

SpecGen == InitGen /\ [][NextGen]_vars

SpecLookup == InitLookup /\ [][NextLookup]_vars

====
